---- MODULE Spec2Model ----
(***************************************************************************)
(* Model of the TesseroRecommendations client SDK                          *)
(* (src/frontend-integration.js): one client instance, its session, the    *)
(* calls in flight on it, the one container of the page and the network.   *)
(*                                                                         *)
(* JavaScript runs every async function synchronously up to its first      *)
(* await on a network response; the code between two awaits is one atomic  *)
(* step.  The only awaits of this class are on fetch()/response.json()     *)
(* (directly or through a nested retrieval call), so every public method   *)
(* is modelled by two steps: the call (up to the fetch) and the            *)
(* continuation run by Respond when the network answers.                   *)
(***************************************************************************)
EXTENDS Integers, Sequences, FiniteSets, Bags, TLC

VARIABLES
    apiBaseUrl,      \* this.apiBaseUrl
    currentUserId,   \* this.currentUserId
    isInitialized,   \* this.isInitialized
    dom,             \* content of the page's container element (innerHTML)
    renderedFor,     \* history: this.currentUserId when the cards in the
                     \* container were rendered (null while it holds none)
    calls            \* the latest call of each caller on the client

vars == <<apiBaseUrl, currentUserId, isInitialized, dom, renderedFor, calls>>

(***************************************************************************)
(* Bounds of the model.                                                    *)
(***************************************************************************)
MaxItems == 2      \* longest item list a server body carries

(***************************************************************************)
(* JavaScript values: a type tag and the text String(v) gives.             *)
(***************************************************************************)
JSV(t, s) == [t |-> t, s |-> s]
Undefined == JSV("undefined", "undefined")
Null == JSV("null", "null")
Num(s) == JSV("number", s)
Str(s) == JSV("string", s)
Element(s) == JSV("element", s)

\* ToBoolean: undefined, null, 0, NaN and "" are falsy
Truthy(v) ==
    CASE v.t \in {"undefined", "null"} -> FALSE
      [] v.t = "number" -> v.s \notin {"0", "NaN"}
      [] v.t = "string" -> v.s # ""
      [] OTHER -> TRUE

\* a || b
OrElse(a, b) == IF Truthy(a) THEN a ELSE b

\* a default parameter value applies when the argument is undefined
DefaultArg(a, d) == IF a = Undefined THEN d ELSE a

\* String(v), as template literals and URLSearchParams apply it
JsString(v) == v.s

\* Array.prototype.join(sep) over an array of strings
RECURSIVE Join(_, _)
Join(a, sep) ==
    IF Len(a) = 0 THEN ""
    ELSE IF Len(a) = 1 THEN a[1]
    ELSE a[1] \o sep \o Join(Tail(a), sep)

\* an array-valued option: k is "undefined", "null" or "array"
NoArray == [k |-> "undefined", a |-> <<>>]
Array(a) == [k |-> "array", a |-> a]
ArrayTruthy(c) == c.k = "array"

(***************************************************************************)
(* Objects: the result envelopes and the server bodies.  keys is the set   *)
(* of own properties; a field not in keys reads as undefined.              *)
(***************************************************************************)
NoObject ==
    [keys |-> {}, success |-> FALSE, error |-> "", count |-> 0,
     isReady |-> FALSE, status |-> "", list |-> <<>>]

\* { success: false, error: error.message }
Failure(msg) == [NoObject EXCEPT !.keys = {"success", "error"}, !.error = msg]

\* { success: true, count: n }
RenderSuccess(n) ==
    [NoObject EXCEPT !.keys = {"success", "count"}, !.success = TRUE, !.count = n]

\* { success: true, isReady: ..., status: status }
InitSuccess(ready, statusBody) ==
    [NoObject EXCEPT !.keys = {"success", "isReady", "status"}, !.success = TRUE,
                     !.isReady = ready, !.status = statusBody.status]

(***************************************************************************)
(* Requests handed to fetch().                                             *)
(***************************************************************************)
NoRequest == [method |-> "", path |-> "", query |-> <<>>, body |-> <<>>]
Get(path, query) == [method |-> "GET", path |-> path, query |-> query, body |-> <<>>]
Post(path, body) == [method |-> "POST", path |-> path, query |-> <<>>, body |-> body]

\* queryParams.append(name, value) when cond holds
AppendIf(q, cond, name, value) == IF cond THEN Append(q, <<name, value>>) ELSE q

QueryKeys(req) == {req.query[i][1] : i \in DOMAIN req.query}
QueryValue(req, k) ==
    LET i == CHOOSE j \in DOMAIN req.query : req.query[j][1] = k IN req.query[i][2]
BodyValue(req, k) ==
    LET i == CHOOSE j \in DOMAIN req.body : req.body[j][1] = k IN req.body[i][2]

\* fetch(`${this.apiBaseUrl}/status`)
StatusRequest(base) == Get(base \o "/status", <<>>)

\* a guard that tests the user id against undefined only
NoUserIdOnlyUndefined(uid) == uid = Undefined

\* a guard that tests the user id against null and undefined (== null)
NoUserIdNullish(uid) == uid.t \in {"undefined", "null"}

\* the guard of recordInteraction and getRecommendations: !this.currentUserId
NoUserId(uid) == ~Truthy(uid)

\* the POST of recordInteraction
InteractionRequest(base, uid, eventId, interactionType, score) ==
    Post(base \o "/event-interactions",
         << <<"user_id", uid>>, <<"event_id", eventId>>,
            <<"interaction_type", Str(interactionType)>>, <<"score", score>> >>)

\* the query of getRecommendations for a user
RecommendationsRequest(base, uid, options) ==
    LET q0 == << <<"user_id", JsString(uid)>>,
                 <<"count", JsString(OrElse(options.count, Num("10")))>> >>
        q1 == AppendIf(q0, ArrayTruthy(options.categories), "categories",
                       Join(options.categories.a, ","))
        q2 == AppendIf(q1, options.minPrice # Undefined, "min_price",
                       JsString(options.minPrice))
        q3 == AppendIf(q2, options.maxPrice # Undefined, "max_price",
                       JsString(options.maxPrice))
        q4 == AppendIf(q3, Truthy(options.location), "location",
                       JsString(options.location))
        q5 == AppendIf(q4, Truthy(options.startDate), "start_date",
                       JsString(options.startDate))
        q6 == AppendIf(q5, Truthy(options.endDate), "end_date",
                       JsString(options.endDate))
    IN  Get(base \o "/recommendations", q6)

\* the query of getTrendingEvents
TrendingRequest(base, options) ==
    LET q0 == << <<"count", JsString(OrElse(options.count, Num("10")))>> >>
        q1 == AppendIf(q0, ArrayTruthy(options.categories), "categories",
                       Join(options.categories.a, ","))
        q2 == AppendIf(q1, Truthy(options.location), "location",
                       JsString(options.location))
    IN  Get(base \o "/trending-events", q2)

\* getRecommendations without the cold-start delegation
RetrievalRequestNoFallback(base, uid, options) ==
    RecommendationsRequest(base, uid, options)

\* getRecommendations delegates to getTrendingEvents when no user id is set
RetrievalRequest(base, uid, options) ==
    IF NoUserId(uid) THEN TrendingRequest(base, options)
    ELSE RecommendationsRequest(base, uid, options)

\* fetch(`${this.apiBaseUrl}/similar-events/${eventId}?count=${count}`)
SimilarRequest(base, eventId, count) ==
    Get(base \o "/similar-events/" \o JsString(eventId),
        << <<"count", JsString(DefaultArg(count, Num("5")))>> >>)

(***************************************************************************)
(* The network and the server: what a fetch() can come back with.          *)
(***************************************************************************)
NoOutcome == [kind |-> "none", status |-> "", body |-> NoObject]
Ok(body) == [kind |-> "ok", status |-> "200", body |-> body]
HttpError(status) == [kind |-> "http", status |-> status, body |-> NoObject]
NetworkError == [kind |-> "network", status |-> "", body |-> NoObject]

\* the message of the error the code throws or fetch rejects with
ErrorMessage(o) ==
    IF o.kind = "http" THEN "API Error: " \o o.status ELSE "Failed to fetch"

\* the items a server body carries: the third lacks the price of a
\* RecommendationItem
Item(id, price) == [event_id |-> id, price |-> price]
Items ==
    { Item(Num("1"), Num("20")), Item(Num("2"), Num("35.5")),
      Item(Num("3"), Undefined) }

RECURSIVE SeqsUpTo(_, _)
SeqsUpTo(S, n) ==
    IF n = 0 THEN {<<>>}
    ELSE LET shorter == SeqsUpTo(S, n - 1)
         IN  shorter \cup {Append(l, x) : l \in {m \in shorter : Len(m) = n - 1}, x \in S}

ItemLists == SeqsUpTo(Items, MaxItems)

StatusBody(st) == [NoObject EXCEPT !.keys = {"status"}, !.status = st]
StatusBodies == {StatusBody("ready"), StatusBody("training")}

\* what the server answers a recorded interaction with
InteractionBodies ==
    { [NoObject EXCEPT !.keys = {"success"}, !.success = TRUE],
      StatusBody("recorded") }

\* the bodies of a retrieval endpoint whose list is under listKey: every list,
\* bare as { <listKey>: [...] } and in the envelope { success: true,
\* <listKey>: [...] }, and a body without the list
ListBody(extra, listKey, list) ==
    [NoObject EXCEPT !.keys = extra \cup {listKey},
                     !.success = "success" \in extra, !.list = list]
ListBodies(listKey) ==
    {ListBody(extra, listKey, l) : extra \in {{}, {"success"}}, l \in ItemLists}
        \cup {StatusBody("ok")}

\* the bodies the endpoint a method asks can answer with
BodiesFor(op) ==
    CASE op \in {"initialize", "getApiStatus"} -> StatusBodies
      [] op \in {"recordInteraction", "click"} -> InteractionBodies
      [] op \in {"getSimilarEvents", "renderSimilarEvents"} -> ListBodies("similar_events")
      [] OTHER -> ListBodies("recommendations")

Outcomes(op) ==
    {Ok(b) : b \in BodiesFor(op)} \cup {HttpError("500"), NetworkError}

(***************************************************************************)
(* The page: one element, found by "#recs"; "#missing" matches nothing and *)
(* "div[" is no valid selector.                                            *)
(***************************************************************************)
InvalidSelector(sel) == sel = "div["

\* document.querySelector(sel), for a valid selector
QuerySelector(sel) == IF sel = "#recs" THEN Element("recs") ELSE Null

\* a resolution that falls back to the page's element when nothing matches
ResolveContainerOrFallback(container) ==
    IF container.t = "string" /\ QuerySelector(container.s) = Null
    THEN Element("recs") ELSE container

\* typeof container === 'string' ? document.querySelector(container) : container
ResolveContainer(container) ==
    IF container.t = "string" THEN QuerySelector(container.s) ELSE container

\* the content of the container: kind is "blank" (never written), "loading",
\* "empty", "error" or "markup"; of names the render method that wrote it;
\* nodes are the rendered fragments and listeners the event id each node's
\* click listener captured (Undefined: no listener)
Content(kind, of, nodes, listeners) ==
    [kind |-> kind, of |-> of, nodes |-> nodes, listeners |-> listeners]
Placeholder(kind, of) == Content(kind, of, <<>>, <<>>)

\* a rendered fragment: dataEventId is its data-event-id attribute
Node(template, dataEventId, item) ==
    [template |-> template, dataEventId |-> dataEventId, item |-> item]

\* the default card of an item; event.price.toFixed(2) throws on a missing price
DefaultCardThrows(item) == item.price.t # "number"
DefaultCard(item) == Node("default", Str(JsString(item.event_id)), item)

\* the custom template functions callers pass: "tagged" marks its fragment
\* with data-event-id, "plain" does not, "throwing" throws
CustomThrows(templateFn) == templateFn = "throwing"
CustomCard(templateFn, item) ==
    IF templateFn = "tagged"
    THEN Node("tagged", Str(JsString(item.event_id)), item)
    ELSE Node(templateFn, Undefined, item)

\* element.dataset.eventId of the nodes querySelectorAll('[data-event-id]') finds
Tracked(nodes) == SelectSeq(nodes, LAMBDA n : n.dataEventId # Undefined)
Listeners(nodes) == [i \in DOMAIN nodes |-> nodes[i].dataEventId]

(***************************************************************************)
(* The methods.  A call record keeps what the caller and the network can   *)
(* observe of one call: its request(s), its writes to the container, the   *)
(* invocations of the template function and how the promise settled        *)
(* (pc "returned": resolved with result; "threw": rejected with thrown).   *)
(***************************************************************************)
Callers == {"a"}

NoOptions ==
    [count |-> Undefined, categories |-> NoArray, minPrice |-> Undefined,
     maxPrice |-> Undefined, location |-> Undefined, startDate |-> Undefined,
     endDate |-> Undefined]

NoArgs ==
    [userId |-> Undefined, eventId |-> Undefined, interactionType |-> "",
     score |-> Undefined, options |-> NoOptions, count |-> Undefined,
     container |-> Undefined, templateFn |-> "none"]

NoCall ==
    [op |-> "none", args |-> NoArgs, pc |-> "idle", uid |-> Null,
     req |-> NoRequest, resp |-> NoOutcome, result |-> NoObject, thrown |-> "",
     sent |-> <<>>, writes |-> <<>>, tplCalls |-> <<>>, pendingViews |-> {}]

\* a call that issues its request twice
AwaitingSendsTwice(op, args, uid, req) ==
    [NoCall EXCEPT !.op = op, !.args = args, !.pc = "awaiting", !.uid = uid,
                   !.req = req, !.sent = <<req, req>>]

\* a call that has issued req and awaits its response
Awaiting(op, args, uid, req) ==
    [NoCall EXCEPT !.op = op, !.args = args, !.pc = "awaiting", !.uid = uid,
                   !.req = req, !.sent = <<req>>]

\* a call that returned before any await
ReturnedAtOnce(op, args, uid, result) ==
    [NoCall EXCEPT !.op = op, !.args = args, !.pc = "returned", !.uid = uid,
                   !.result = result]

\* a call whose promise is rejected before any await
ThrewAtOnce(op, args, uid, msg) ==
    [NoCall EXCEPT !.op = op, !.args = args, !.pc = "threw", !.uid = uid,
                   !.thrown = msg]

Free(c) == calls[c].pc # "awaiting"

\* A settled call's record is kept until the next step of any call: the calls
\* still in flight, the settled ones forgotten
InFlight == [c \in DOMAIN calls |-> IF calls[c].pc = "awaiting" THEN calls[c] ELSE NoCall]

\* try { ...; return await response.json() } catch (error) { return {success: false, ...} }
FetchResult(o) == IF o.kind = "ok" THEN o.body ELSE Failure(ErrorMessage(o))

\* recordInteraction up to its fetch: the guard, or the POST
RecordInteractionCall(op, args, base, uid) ==
    IF NoUserId(uid)
    THEN ReturnedAtOnce(op, args, uid, Failure("No user ID set"))
    ELSE Awaiting(op, args, uid,
                  InteractionRequest(base, uid, args.eventId, args.interactionType,
                                     DefaultArg(args.score, Num("1"))))

(***************************************************************************)
(* The rendering pipeline after the retrieval result is in.                *)
(***************************************************************************)
\* an emptiness test that forgets the absent list
NoItemsLengthOnly(response, listKey) ==
    listKey \in response.keys /\ Len(response.list) = 0

\* !response.recommendations || response.recommendations.length === 0
NoItems(response, listKey) == listKey \notin response.keys \/ Len(response.list) = 0

\* the items list.map(templateFn) passes to the template function
TemplateCalls(templateFn, list) ==
    IF templateFn = "none" THEN <<>>
    ELSE IF CustomThrows(templateFn) THEN <<list[1]>>
    ELSE list

\* building the markup throws
MarkupThrows(templateFn, list) ==
    IF templateFn # "none" THEN CustomThrows(templateFn)
    ELSE \E i \in DOMAIN list : DefaultCardThrows(list[i])

MarkupError(templateFn) ==
    IF templateFn # "none" THEN "template failed"
    ELSE "Cannot read properties of undefined (reading 'toFixed')"

\* markup that ignores the template function
MarkupAlwaysDefault(templateFn, list) == [i \in DOMAIN list |-> DefaultCard(list[i])]

\* the markup: the template function's fragments, or the default cards
Markup(templateFn, list) ==
    [i \in DOMAIN list |->
        IF templateFn # "none" THEN CustomCard(templateFn, list[i])
        ELSE DefaultCard(list[i])]

\* view tracking of the first tracked node only (querySelector for querySelectorAll)
ViewRequestsFirstOnly(base, uid, nodes) ==
    IF NoUserId(uid) \/ Tracked(nodes) = <<>> THEN <<>>
    ELSE << InteractionRequest(base, uid, Tracked(nodes)[1].dataEventId, "view",
                               Num("1")) >>

\* this.recordInteraction(eventId, 'view') for each tracked node: the POSTs issued
ViewRequests(base, uid, nodes) ==
    IF NoUserId(uid) THEN <<>>
    ELSE [i \in DOMAIN Tracked(nodes) |->
            InteractionRequest(base, uid, Tracked(nodes)[i].dataEventId, "view",
                               Num("1"))]

\* the content the render call leaves in the container
RenderContent(response, listKey, of, templateFn) ==
    IF NoItems(response, listKey) THEN Placeholder("empty", of)
    ELSE IF MarkupThrows(templateFn, response.list) THEN Placeholder("error", of)
    ELSE LET nodes == Markup(templateFn, response.list)
         IN  Content("markup", of, nodes, Listeners(nodes))

\* what the render call resolves to
RenderResult(response, listKey, templateFn) ==
    IF NoItems(response, listKey) THEN RenderSuccess(0)
    ELSE IF MarkupThrows(templateFn, response.list)
         THEN Failure(MarkupError(templateFn))
    ELSE RenderSuccess(Len(response.list))

\* a render call whose tracking loop fails after the markup is in place, so
\* that the catch block writes the error placeholder over it
RenderDoneErrorAfterMarkup(call, o, response, listKey, of, base, uid) ==
    LET templateFn == call.args.templateFn
        content == RenderContent(response, listKey, of, templateFn)
    IN  [call EXCEPT
            !.pc = "returned",
            !.resp = o,
            !.result = IF content.kind = "markup" THEN Failure("tracking failed")
                       ELSE RenderResult(response, listKey, templateFn),
            !.writes = IF content.kind = "markup" THEN @ \o <<"markup", "error">>
                       ELSE Append(@, content.kind),
            !.tplCalls = IF NoItems(response, listKey) THEN <<>>
                         ELSE TemplateCalls(templateFn, response.list)]

\* the render call once its retrieval resolved to response
RenderDone(call, o, response, listKey, of, base, uid) ==
    LET templateFn == call.args.templateFn
        content == RenderContent(response, listKey, of, templateFn)
        views == IF content.kind = "markup"
                 THEN ViewRequests(base, uid, content.nodes) ELSE <<>>
    IN  [call EXCEPT
            !.pc = "returned",
            !.resp = o,
            !.result = RenderResult(response, listKey, templateFn),
            !.writes = Append(@, content.kind),
            !.tplCalls = IF NoItems(response, listKey) THEN <<>>
                         ELSE TemplateCalls(templateFn, response.list),
            !.sent = @ \o views,
            !.pendingViews = {Len(call.sent) + i : i \in DOMAIN views}]

(***************************************************************************)
(* Construction: new TesseroRecommendations().                             *)
(***************************************************************************)
Init ==
    /\ apiBaseUrl = "/api"
    /\ currentUserId = Null
    /\ isInitialized = FALSE
    /\ dom = Placeholder("blank", "")
    /\ renderedFor = Null
    /\ calls = [c \in Callers |-> NoCall]

(***************************************************************************)
(* The calls, each up to its first await.                                  *)
(***************************************************************************)
\* an initialize that keeps the user id it has when called without one
InitializeKeepsUserWhenOmitted(c, userId) ==
    /\ Free(c)
    /\ currentUserId' = DefaultArg(userId, currentUserId)
    /\ calls' = [InFlight EXCEPT ![c] =
            Awaiting("initialize", [NoArgs EXCEPT !.userId = userId],
                     currentUserId', StatusRequest(apiBaseUrl))]
    /\ UNCHANGED <<apiBaseUrl, isInitialized, dom, renderedFor>>

Initialize(c, userId) ==
    /\ Free(c)
    /\ currentUserId' = DefaultArg(userId, Null)
    /\ calls' = [InFlight EXCEPT ![c] =
            Awaiting("initialize", [NoArgs EXCEPT !.userId = userId],
                     currentUserId', StatusRequest(apiBaseUrl))]
    /\ UNCHANGED <<apiBaseUrl, isInitialized, dom, renderedFor>>

GetApiStatus(c) ==
    /\ Free(c)
    /\ calls' = [InFlight EXCEPT ![c] =
            Awaiting("getApiStatus", NoArgs, Null, StatusRequest(apiBaseUrl))]
    /\ UNCHANGED <<apiBaseUrl, currentUserId, isInitialized, dom, renderedFor>>

RecordInteraction(c, eventId, interactionType, score) ==
    /\ Free(c)
    /\ calls' = [InFlight EXCEPT ![c] =
            RecordInteractionCall("recordInteraction",
                [NoArgs EXCEPT !.eventId = eventId,
                               !.interactionType = interactionType, !.score = score],
                apiBaseUrl, currentUserId)]
    /\ UNCHANGED <<apiBaseUrl, currentUserId, isInitialized, dom, renderedFor>>

GetRecommendations(c, options) ==
    /\ Free(c)
    /\ calls' = [InFlight EXCEPT ![c] =
            Awaiting("getRecommendations", [NoArgs EXCEPT !.options = options],
                     currentUserId,
                     RetrievalRequest(apiBaseUrl, currentUserId, options))]
    /\ UNCHANGED <<apiBaseUrl, currentUserId, isInitialized, dom, renderedFor>>

GetTrendingEvents(c, options) ==
    /\ Free(c)
    /\ calls' = [InFlight EXCEPT ![c] =
            Awaiting("getTrendingEvents", [NoArgs EXCEPT !.options = options],
                     Null, TrendingRequest(apiBaseUrl, options))]
    /\ UNCHANGED <<apiBaseUrl, currentUserId, isInitialized, dom, renderedFor>>

GetSimilarEvents(c, eventId, count) ==
    /\ Free(c)
    /\ calls' = [InFlight EXCEPT ![c] =
            Awaiting("getSimilarEvents",
                     [NoArgs EXCEPT !.eventId = eventId, !.count = count],
                     Null, SimilarRequest(apiBaseUrl, eventId, count))]
    /\ UNCHANGED <<apiBaseUrl, currentUserId, isInitialized, dom, renderedFor>>

\* a render method up to the await of its retrieval call, which reads uid
\* and issues req
RenderCall(c, op, args, of, uid, req) ==
    /\ Free(c)
    /\ IF args.container.t = "string" /\ InvalidSelector(args.container.s)
       THEN \* document.querySelector throws, outside the try block
            /\ calls' = [InFlight EXCEPT ![c] =
                    ThrewAtOnce(op, args, Null, "not a valid selector")]
            /\ UNCHANGED <<dom, renderedFor>>
       ELSE IF ~Truthy(ResolveContainer(args.container))
       THEN /\ calls' = [InFlight EXCEPT ![c] =
                    ReturnedAtOnce(op, args, Null,
                                   Failure("Container element not found"))]
            /\ UNCHANGED <<dom, renderedFor>>
       ELSE /\ calls' = [InFlight EXCEPT ![c] =
                    [Awaiting(op, args, uid, req) EXCEPT !.writes = <<"loading">>]]
            /\ dom' = Placeholder("loading", of)
            /\ renderedFor' = Null
    /\ UNCHANGED <<apiBaseUrl, currentUserId, isInitialized>>

RenderRecommendations(c, container, options, templateFn) ==
    RenderCall(c, "renderRecommendations",
               [NoArgs EXCEPT !.container = container, !.options = options,
                              !.templateFn = templateFn],
               "recommendations", currentUserId,
               RetrievalRequest(apiBaseUrl, currentUserId, options))

RenderSimilarEvents(c, eventId, container, options, templateFn) ==
    RenderCall(c, "renderSimilarEvents",
               [NoArgs EXCEPT !.eventId = eventId, !.container = container,
                              !.options = options, !.templateFn = templateFn],
               "similar events", Null,
               SimilarRequest(apiBaseUrl, eventId, OrElse(options.count, Num("5"))))

\* a click listener that captured the user id along with the event id
ClickAsRenderedUser(c, i) ==
    /\ Free(c)
    /\ dom.kind = "markup"
    /\ i \in DOMAIN dom.listeners
    /\ dom.listeners[i] # Undefined
    /\ calls' = [InFlight EXCEPT ![c] =
            RecordInteractionCall("click",
                [NoArgs EXCEPT !.eventId = dom.listeners[i],
                               !.interactionType = "click"],
                apiBaseUrl, renderedFor)]
    /\ UNCHANGED <<apiBaseUrl, currentUserId, isInitialized, dom, renderedFor>>

\* the click listener of node i of the container: recordInteraction(eventId, 'click')
Click(c, i) ==
    /\ Free(c)
    /\ dom.kind = "markup"
    /\ i \in DOMAIN dom.listeners
    /\ dom.listeners[i] # Undefined
    /\ calls' = [InFlight EXCEPT ![c] =
            RecordInteractionCall("click",
                [NoArgs EXCEPT !.eventId = dom.listeners[i],
                               !.interactionType = "click"],
                apiBaseUrl, currentUserId)]
    /\ UNCHANGED <<apiBaseUrl, currentUserId, isInitialized, dom, renderedFor>>

(***************************************************************************)
(* The continuations, run when the network answers the awaited request     *)
(* with outcome o.                                                         *)
(***************************************************************************)
\* status.status === 'ready'
StatusReady(body) == "status" \in body.keys /\ body.status = "ready"

RespondInitialize(c, o) ==
    /\ calls[c].pc = "awaiting" /\ calls[c].op = "initialize"
    /\ isInitialized' = IF o.kind = "ok" THEN StatusReady(o.body) ELSE isInitialized
    /\ calls' = [InFlight EXCEPT ![c] =
            [@ EXCEPT !.pc = "returned", !.resp = o,
                      !.result = IF o.kind = "ok"
                                 THEN InitSuccess(StatusReady(o.body), o.body)
                                 ELSE Failure(ErrorMessage(o))]]
    /\ UNCHANGED <<apiBaseUrl, currentUserId, dom, renderedFor>>

\* getApiStatus has no try block: a failed request rejects its promise
RespondGetApiStatus(c, o) ==
    /\ calls[c].pc = "awaiting" /\ calls[c].op = "getApiStatus"
    /\ calls' = [InFlight EXCEPT ![c] =
            IF o.kind = "ok"
            THEN [@ EXCEPT !.pc = "returned", !.resp = o, !.result = o.body]
            ELSE [@ EXCEPT !.pc = "threw", !.resp = o, !.thrown = ErrorMessage(o)]]
    /\ UNCHANGED <<apiBaseUrl, currentUserId, isInitialized, dom, renderedFor>>

\* a continuation that takes a failed request for the API not being ready
RespondFetchMarksNotReady(c, o) ==
    /\ calls[c].pc = "awaiting"
    /\ calls[c].op \in {"recordInteraction", "click", "getRecommendations",
                        "getTrendingEvents", "getSimilarEvents"}
    /\ calls' = [InFlight EXCEPT ![c] =
            [@ EXCEPT !.pc = "returned", !.resp = o, !.result = FetchResult(o)]]
    /\ isInitialized' = IF o.kind = "ok" THEN isInitialized ELSE FALSE
    /\ UNCHANGED <<apiBaseUrl, currentUserId, dom, renderedFor>>

\* recordInteraction, getRecommendations, getTrendingEvents, getSimilarEvents
RespondFetch(c, o) ==
    /\ calls[c].pc = "awaiting"
    /\ calls[c].op \in {"recordInteraction", "click", "getRecommendations",
                        "getTrendingEvents", "getSimilarEvents"}
    /\ calls' = [InFlight EXCEPT ![c] =
            [@ EXCEPT !.pc = "returned", !.resp = o, !.result = FetchResult(o)]]
    /\ UNCHANGED <<apiBaseUrl, currentUserId, isInitialized, dom, renderedFor>>

\* a continuation with a re-entrancy guard: the terminal write happens only
\* while the container still shows a loading placeholder
RespondRenderFirstWriterWins(c, o) ==
    /\ calls[c].pc = "awaiting"
    /\ calls[c].op \in {"renderRecommendations", "renderSimilarEvents"}
    /\ LET listKey == IF calls[c].op = "renderSimilarEvents"
                      THEN "similar_events" ELSE "recommendations"
           of == IF calls[c].op = "renderSimilarEvents"
                 THEN "similar events" ELSE "recommendations"
           content == RenderContent(FetchResult(o), listKey, of, calls[c].args.templateFn)
       IN  /\ dom' = IF dom.kind = "loading" THEN content ELSE dom
           /\ renderedFor' = IF dom.kind # "loading" THEN renderedFor
                             ELSE IF content.kind = "markup" THEN currentUserId ELSE Null
           /\ calls' = [InFlight EXCEPT ![c] =
                   RenderDone(@, o, FetchResult(o), listKey, of, apiBaseUrl,
                              currentUserId)]
    /\ UNCHANGED <<apiBaseUrl, currentUserId, isInitialized>>

RespondRender(c, o) ==
    /\ calls[c].pc = "awaiting"
    /\ calls[c].op \in {"renderRecommendations", "renderSimilarEvents"}
    /\ LET listKey == IF calls[c].op = "renderSimilarEvents"
                      THEN "similar_events" ELSE "recommendations"
           of == IF calls[c].op = "renderSimilarEvents"
                 THEN "similar events" ELSE "recommendations"
       IN  /\ dom' = RenderContent(FetchResult(o), listKey, of, calls[c].args.templateFn)
           /\ renderedFor' = IF dom'.kind = "markup" THEN currentUserId ELSE Null
           /\ calls' = [InFlight EXCEPT ![c] =
                   RenderDone(@, o, FetchResult(o), listKey, of, apiBaseUrl,
                              currentUserId)]
    /\ UNCHANGED <<apiBaseUrl, currentUserId, isInitialized>>

\* a view POST whose failure is reported: the error placeholder is written
\* and the call's result becomes the failure
RespondViewReportsFailure(c, i, o) ==
    /\ i \in calls[c].pendingViews
    /\ calls' = [calls EXCEPT ![c].pendingViews = @ \ {i},
                              ![c].result = IF o.kind = "ok" THEN @
                                            ELSE Failure(ErrorMessage(o))]
    /\ dom' = IF o.kind = "ok" THEN dom ELSE Placeholder("error", dom.of)
    /\ UNCHANGED <<apiBaseUrl, currentUserId, isInitialized, renderedFor>>

\* the network answers a view POST nobody awaits: the result is only logged
RespondView(c, i, o) ==
    /\ i \in calls[c].pendingViews
    /\ calls' = [calls EXCEPT ![c].pendingViews = @ \ {i}]
    /\ UNCHANGED <<apiBaseUrl, currentUserId, isInitialized, dom, renderedFor>>

(***************************************************************************)
(* The arguments callers pass.                                             *)
(***************************************************************************)
UserIdArgs == {Undefined, Num("0"), Str("u1"), Str("u2")}
\* the user ids that are set but falsy
FalsyUserIdArgs == {Num("0"), Str("")}
EventIdArgs == {Num("7")}
InteractionTypeArgs == {"wishlist"}
ScoreArgs == {Undefined, Num("0.5")}
SimilarCountArgs == {Undefined, Num("0"), Num("3")}
ContainerArgs == {Str("#recs"), Element("recs"), Str("#missing"), Str("div["), Null}
TemplateArgs == {"none", "tagged", "plain", "throwing"}

OptionArgs ==
    { NoOptions,
      [NoOptions EXCEPT !.count = Num("6")],
      [NoOptions EXCEPT !.count = Num("0"), !.categories = Array(<<>>),
                        !.maxPrice = Num("0")],
      [NoOptions EXCEPT !.minPrice = Null, !.location = Str("")],
      [count |-> Num("6"), categories |-> Array(<<"Concert", "Festival">>),
       minPrice |-> Num("10"), maxPrice |-> Num("50"), location |-> Str("NYC"),
       startDate |-> Str("2025-01-01"), endDate |-> Str("2025-12-31")] }

RenderOptionArgs ==
    {o \in OptionArgs : o.minPrice = Undefined /\ o.location = Undefined}

\* the (container, options, templateFn) of the render calls: the options and
\* the template function vary one at a time, and with the selector "#recs"
RenderArgs ==
    {r \in [container : ContainerArgs, options : RenderOptionArgs,
            templateFn : TemplateArgs] :
        /\ r.options = NoOptions \/ r.templateFn = "none"
        /\ \/ r.container = Str("#recs")
           \/ r.options = NoOptions /\ r.templateFn \in {"none", "tagged"}}

(***************************************************************************)
(* One caller that awaits each call before the next.  The retrieval and    *)
(* recording methods neither read nor write the container and the render   *)
(* methods touch the session only through recordInteraction and            *)
(* getRecommendations, so the client is explored in two environments:      *)
(* Spec, a caller of the programmatic methods, and SpecRender, a page      *)
(* that renders into its container and whose user clicks the cards.        *)
(***************************************************************************)
Next ==
    \/ \E userId \in UserIdArgs \cup FalsyUserIdArgs : Initialize("a", userId)
    \/ GetApiStatus("a")
    \/ \E e \in EventIdArgs, t \in InteractionTypeArgs, s \in ScoreArgs :
            RecordInteraction("a", e, t, s)
    \/ \E options \in OptionArgs : GetRecommendations("a", options)
    \/ \E options \in OptionArgs : GetTrendingEvents("a", options)
    \/ \E e \in EventIdArgs, n \in SimilarCountArgs : GetSimilarEvents("a", e, n)
    \/ \E o \in Outcomes(calls["a"].op) : RespondInitialize("a", o)
    \/ \E o \in Outcomes(calls["a"].op) : RespondGetApiStatus("a", o)
    \/ \E o \in Outcomes(calls["a"].op) : RespondFetch("a", o)

Spec == Init /\ [][Next]_vars

NextRender ==
    \/ \E userId \in UserIdArgs : Initialize("a", userId)
    \/ \E e \in EventIdArgs, t \in InteractionTypeArgs, s \in ScoreArgs :
            RecordInteraction("a", e, t, s)
    \/ \E r \in RenderArgs :
            RenderRecommendations("a", r.container, r.options, r.templateFn)
    \/ \E e \in EventIdArgs, r \in RenderArgs :
            RenderSimilarEvents("a", e, r.container, r.options, r.templateFn)
    \/ \E i \in 1..MaxItems : Click("a", i)
    \/ \E o \in Outcomes(calls["a"].op) : RespondInitialize("a", o)
    \/ \E o \in Outcomes(calls["a"].op) : RespondFetch("a", o)
    \/ \E o \in Outcomes(calls["a"].op) : RespondRender("a", o)
    \/ \E i \in calls["a"].pendingViews : \E o \in Outcomes("recordInteraction") :
            RespondView("a", i, o)

SpecRender == Init /\ [][NextRender]_vars

(***************************************************************************)
(* Two call chains on the one client, interleaved at their awaits: the     *)
(* page's set-up code "a", which initializes the client and renders the    *)
(* recommendations, and a second chain "b", which calls every other        *)
(* method and renders the similar events into the same container while a   *)
(* call of "a" may be in flight.  The arguments and the server's answers   *)
(* are a few of those above.                                               *)
(***************************************************************************)
ConcurrentCallers == {"a", "b"}

InitConcurrent ==
    /\ apiBaseUrl = "/api"
    /\ currentUserId = Null
    /\ isInitialized = FALSE
    /\ dom = Placeholder("blank", "")
    /\ renderedFor = Null
    /\ calls = [c \in ConcurrentCallers |-> NoCall]

ConcurrentUserIdArgs == {Undefined, Str("u1"), Str("u2")}
ConcurrentTemplateArgs == {"none", "plain"}

ConcurrentLists ==
    { <<>>, <<Item(Num("1"), Num("20"))>>,
      <<Item(Num("2"), Num("35.5")), Item(Num("1"), Num("20"))>> }

ConcurrentBodiesFor(op) ==
    CASE op \in {"initialize", "getApiStatus"} -> StatusBodies
      [] op \in {"recordInteraction", "click"} ->
            {[NoObject EXCEPT !.keys = {"success"}, !.success = TRUE]}
      [] op \in {"getSimilarEvents", "renderSimilarEvents"} ->
            {ListBody({"success"}, "similar_events", l) : l \in ConcurrentLists}
      [] OTHER -> {ListBody({"success"}, "recommendations", l) : l \in ConcurrentLists}

ConcurrentOutcomes(op) ==
    {Ok(b) : b \in ConcurrentBodiesFor(op)} \cup {HttpError("500")}

NextConcurrent ==
    \/ \E userId \in ConcurrentUserIdArgs : Initialize("a", userId)
    \/ \E t \in ConcurrentTemplateArgs :
            RenderRecommendations("a", Str("#recs"), NoOptions, t)
    \/ GetApiStatus("b")
    \/ \E e \in EventIdArgs, t \in InteractionTypeArgs :
            RecordInteraction("b", e, t, Undefined)
    \/ GetRecommendations("b", NoOptions)
    \/ GetTrendingEvents("b", NoOptions)
    \/ \E e \in EventIdArgs : GetSimilarEvents("b", e, Undefined)
    \/ RenderRecommendations("b", Str("#recs"), NoOptions, "none")
    \/ \E e \in EventIdArgs :
            RenderSimilarEvents("b", e, Element("recs"), NoOptions, "none")
    \/ \E i \in 1..MaxItems : Click("b", i)
    \/ \E o \in ConcurrentOutcomes(calls["a"].op) : RespondInitialize("a", o)
    \/ \E o \in ConcurrentOutcomes(calls["b"].op) : RespondGetApiStatus("b", o)
    \/ \E o \in ConcurrentOutcomes(calls["b"].op) : RespondFetch("b", o)
    \/ \E c \in ConcurrentCallers :
            \E o \in ConcurrentOutcomes(calls[c].op) : RespondRender(c, o)
    \/ \E c \in ConcurrentCallers : \E i \in calls[c].pendingViews :
            \E o \in Outcomes("recordInteraction") : RespondView(c, i, o)

SpecConcurrent == InitConcurrent /\ [][NextConcurrent]_vars

(***************************************************************************)
(* The properties.                                                         *)
(***************************************************************************)
Session == <<apiBaseUrl, currentUserId, isInitialized>>
RenderOps == {"renderRecommendations", "renderSimilarEvents"}
EnvelopeOps ==
    {"recordInteraction", "getRecommendations", "getTrendingEvents", "getSimilarEvents"}
ListKeyOf(op) == IF op = "renderSimilarEvents" THEN "similar_events" ELSE "recommendations"
LabelOf(op) == IF op = "renderSimilarEvents" THEN "similar events" ELSE "recommendations"

\* the step is caller c making a call (not a continuation of one)
IsCallBy(c) ==
    /\ calls[c].pc # "awaiting"
    /\ \/ calls'[c].pc = "awaiting"
       \/ calls'[c].pc \in {"returned", "threw"} /\ calls'[c].resp.kind = "none"

\* the un-awaited POSTs a settled render call issued after its retrieval request
ViewsOf(call) == SubSeq(call.sent, 2, Len(call.sent))

\* C1: every public method completes by returning a result and never raises
\* an exception to its caller (no promise of a call is ever rejected).
C1_NeverThrows == \A c \in DOMAIN calls : calls[c].pc # "threw"

\* C2: every result of recordInteraction, getRecommendations,
\* getTrendingEvents and getSimilarEvents has a success field: the server's
\* fields with success = true on a 2xx response, {success: false, error}
\* on any failure.
C2_TwoShapes ==
    \A c \in DOMAIN calls :
        (calls[c].pc = "returned" /\ calls[c].op \in EnvelopeOps) =>
            /\ "success" \in calls[c].result.keys
            /\ IF calls[c].resp.kind = "ok"
               THEN /\ calls[c].result.success
                    /\ calls[c].resp.body.keys \subseteq calls[c].result.keys
               ELSE /\ ~calls[c].result.success
                    /\ calls[c].result.keys = {"success", "error"}

\* C3: a call of recordInteraction made while currentUserId is null issues
\* no HTTP request, returns {success: false, error: "No user ID set"} at
\* once and leaves the session (and the container) unchanged.
C3_NoUserNoRequest ==
    [][\A c \in DOMAIN calls :
        (IsCallBy(c) /\ calls'[c].op = "recordInteraction" /\ currentUserId = Null) =>
            /\ calls'[c].pc = "returned"
            /\ calls'[c].sent = <<>>
            /\ calls'[c].result = Failure("No user ID set")
            /\ Session' = Session
            /\ dom' = dom]_vars

C3_Witness ==
    /\ currentUserId = Null /\ isInitialized
    /\ calls["a"].op = "recordInteraction" /\ calls["a"].pc = "returned"
    /\ calls["a"].sent = <<>>
    /\ calls["a"].result.error = "No user ID set"

\* C4: a getRecommendations call made while currentUserId is null issues
\* exactly one request, the GET /trending-events (count, categories and
\* location only) that getTrendingEvents issues for the same options, never
\* one to /recommendations, and resolves to what getTrendingEvents resolves
\* to for the same response: the body on 2xx, the failure shape otherwise.
C4_ColdStartIsTrending ==
    \A c \in DOMAIN calls :
        (calls[c].op = "getRecommendations" /\ calls[c].uid = Null) =>
            /\ calls[c].sent = <<calls[c].req>>
            /\ calls[c].req.method = "GET"
            /\ calls[c].req.path = "/api/trending-events"
            /\ QueryKeys(calls[c].req) \subseteq {"count", "categories", "location"}
            /\ calls[c].req = TrendingRequest(apiBaseUrl, calls[c].args.options)
            /\ calls[c].pc # "threw"
            /\ calls[c].pc = "returned" =>
                 calls[c].result =
                    IF calls[c].resp.kind = "ok" THEN calls[c].resp.body
                    ELSE Failure(ErrorMessage(calls[c].resp))

C4_Witness ==
    /\ calls["a"].op = "getRecommendations" /\ calls["a"].uid = Null
    /\ calls["a"].pc = "returned"
    /\ calls["a"].args.options.minPrice = Num("10")
    /\ calls["a"].req.query =
          << <<"count", "6">>, <<"categories", "Concert,Festival">>,
             <<"location", "NYC">> >>
    /\ calls["a"].resp.kind = "ok" /\ Len(calls["a"].result.list) = 2

\* an option value the caller provided: not undefined, null or empty
Provided(v) == v \notin {Undefined, Null, Str("")}
ProvidedArray(c) == c.k = "array" /\ Len(c.a) > 0

\* C5: a getRecommendations request for a user always carries user_id and
\* count, and carries categories, min_price, max_price, location,
\* start_date, end_date only for options the caller provided (not
\* undefined, null or empty).
C5_OnlyProvidedOptions ==
    \A c \in DOMAIN calls :
        (calls[c].op = "getRecommendations" /\ Truthy(calls[c].uid)) =>
            LET keys == QueryKeys(calls[c].req)
                options == calls[c].args.options
            IN  /\ {"user_id", "count"} \subseteq keys
                /\ "categories" \in keys => ProvidedArray(options.categories)
                /\ "min_price" \in keys => Provided(options.minPrice)
                /\ "max_price" \in keys => Provided(options.maxPrice)
                /\ "location" \in keys => Provided(options.location)
                /\ "start_date" \in keys => Provided(options.startDate)
                /\ "end_date" \in keys => Provided(options.endDate)

\* the response of a render call's retrieval carries no item: the request
\* failed, or the body has no list or an empty one
NoItemsIn(call) ==
    \/ call.resp.kind # "ok"
    \/ ListKeyOf(call.op) \notin call.resp.body.keys
    \/ call.resp.body.list = <<>>

\* a render call that resolved its container and whose retrieval completed
RenderSettled(call) ==
    call.op \in RenderOps /\ call.pc = "returned" /\ call.resp.kind # "none"

\* C6: when the retrieval result of a render call with a resolved container
\* has an absent or empty item list, the container ends with the
\* empty-state placeholder, the call returns {success: true, count: 0} and
\* records no view (no POST) and attaches no click listener.
C6_EmptyState ==
    \A c \in DOMAIN calls :
        (RenderSettled(calls[c]) /\ NoItemsIn(calls[c])) =>
            /\ dom = Placeholder("empty", LabelOf(calls[c].op))
            /\ calls[c].result = RenderSuccess(0)
            /\ calls[c].sent = <<calls[c].req>>
            /\ calls[c].writes = <<"loading", "empty">>
            /\ calls[c].tplCalls = <<>>

C6_Witness ==
    /\ RenderSettled(calls["a"])
    /\ calls["a"].op = "renderRecommendations"
    /\ Truthy(currentUserId)
    /\ calls["a"].resp.kind = "ok"
    /\ "recommendations" \in calls["a"].resp.body.keys
    /\ calls["a"].resp.body.list = <<>>
    /\ dom.kind = "empty"
    /\ calls["a"].result.count = 0

\* C7: when the retrieval of a render call fails (non-2xx or network
\* failure), the container ends with the error placeholder and the call
\* returns {success: false, error}.
C7_FetchFailureIsError ==
    \A c \in DOMAIN calls :
        (RenderSettled(calls[c]) /\ calls[c].resp.kind \in {"http", "network"}) =>
            /\ dom.kind = "error"
            /\ "success" \in calls[c].result.keys /\ ~calls[c].result.success
            /\ "error" \in calls[c].result.keys

\* every item of the list has the fields of a RecommendationItem
WellFormed(list) == \A i \in DOMAIN list : list[i].price.t = "number"

\* the POST recording a view of item by user uid
IsViewOf(req, item, uid) ==
    /\ req.method = "POST" /\ req.path = "/api/event-interactions"
    /\ BodyValue(req, "user_id") = uid
    /\ BodyValue(req, "event_id") = Str(item.event_id.s)
    /\ BodyValue(req, "interaction_type") = Str("view")

\* C8: with a user id set and no custom template, renderRecommendations on
\* a retrieval result of N >= 1 items leaves one default card per item in
\* the container, issues exactly N view POSTs, the i-th for the i-th item's
\* event_id, and returns {success: true, count: N}.
C8_OneCardOneViewPerItem ==
    \A c \in DOMAIN calls :
        LET call == calls[c]
            list == call.resp.body.list
        IN  ( /\ RenderSettled(call) /\ call.op = "renderRecommendations"
              /\ call.args.templateFn = "none" /\ Truthy(currentUserId)
              /\ ~NoItemsIn(call) /\ WellFormed(list) ) =>
                /\ dom.kind = "markup" /\ Len(dom.nodes) = Len(list)
                /\ \A i \in DOMAIN list :
                      /\ dom.nodes[i].template = "default"
                      /\ dom.nodes[i].item = list[i]
                      /\ dom.nodes[i].dataEventId = Str(list[i].event_id.s)
                /\ Len(ViewsOf(call)) = Len(list)
                /\ \A i \in DOMAIN list : IsViewOf(ViewsOf(call)[i], list[i], currentUserId)
                /\ call.result = RenderSuccess(Len(list))

C8_Witness ==
    /\ RenderSettled(calls["a"]) /\ calls["a"].op = "renderRecommendations"
    /\ calls["a"].args.templateFn = "none" /\ currentUserId = Str("u1")
    /\ calls["a"].resp.body.list = <<Item(Num("2"), Num("35.5")), Item(Num("1"), Num("20"))>>
    /\ Len(ViewsOf(calls["a"])) = 2
    /\ calls["a"].result.count = 2
    /\ dom.kind = "markup"

\* C9: when a custom template function (one that returns a fragment for
\* every item) is supplied to a render call that has items to render, the
\* function is invoked exactly once per retrieved item in list order, the
\* container holds its outputs in that order and no default card.
C9_CustomTemplate ==
    \A c \in DOMAIN calls :
        LET call == calls[c]
            list == call.resp.body.list
            templateFn == call.args.templateFn
        IN  ( /\ RenderSettled(call) /\ templateFn \in {"tagged", "plain"}
              /\ ~NoItemsIn(call) ) =>
                /\ call.tplCalls = list
                /\ dom.kind = "markup"
                /\ dom.nodes = [i \in DOMAIN list |-> CustomCard(templateFn, list[i])]
                /\ \A i \in DOMAIN dom.nodes : dom.nodes[i].template # "default"
                /\ \A w \in DOMAIN call.writes : call.writes[w] # "error"

C9_Witness ==
    /\ RenderSettled(calls["a"]) /\ calls["a"].op = "renderSimilarEvents"
    /\ calls["a"].args.templateFn = "plain"
    /\ calls["a"].resp.body.list = <<Item(Num("2"), Num("35.5")), Item(Num("3"), Undefined)>>
    /\ calls["a"].tplCalls = calls["a"].resp.body.list
    /\ dom.kind = "markup" /\ Len(dom.nodes) = 2

\* C10: a render call whose container selector matches no element (or whose
\* container argument is null) returns
\* {success: false, error: "Container element not found"} at once, having
\* issued no request, written nothing to the container, invoked no template
\* and recorded no interaction.
C10_UnresolvedContainer ==
    [][\A c \in DOMAIN calls :
        ( /\ IsCallBy(c) /\ calls'[c].op \in RenderOps
          /\ calls'[c].args.container \in {Str("#missing"), Null} ) =>
            /\ calls'[c].pc = "returned"
            /\ calls'[c].result = Failure("Container element not found")
            /\ calls'[c].sent = <<>>
            /\ calls'[c].writes = <<>>
            /\ calls'[c].tplCalls = <<>>
            /\ dom' = dom]_vars

C10_Witness ==
    /\ calls["a"].op = "renderSimilarEvents" /\ calls["a"].pc = "returned"
    /\ calls["a"].args.container = Str("#missing")
    /\ calls["a"].result.error = "Container element not found"
    /\ dom.kind = "markup"

\* the step is the continuation of caller c's render call: its retrieval
\* completed
IsRenderResponseOf(c) ==
    /\ calls[c].pc = "awaiting" /\ calls[c].op \in RenderOps
    /\ calls'[c] # calls[c]

\* the terminal content a settled render call wrote
TerminalContent(call) ==
    RenderContent(FetchResult(call.resp), ListKeyOf(call.op), LabelOf(call.op),
                  call.args.templateFn)

\* C11: when the retrieval of a render call completes while another render
\* call on the same container is in flight, the completing call writes its
\* terminal content over whatever the container holds (so the call whose
\* retrieval completes last decides the final content, whichever call was
\* started first), and the other call is neither cancelled nor blocked: it
\* stays in flight, unchanged.
C11_LastWriterWins ==
    /\ [][\A c \in DOMAIN calls :
            IsRenderResponseOf(c) =>
                /\ calls'[c].pc = "returned"
                /\ dom' = TerminalContent(calls'[c])
                /\ \A d \in DOMAIN calls \ {c} :
                      calls[d].pc = "awaiting" => calls'[d] = calls[d]]_vars
    /\ [](\A c \in DOMAIN calls :
            (calls[c].pc = "awaiting" /\ calls[c].op \in RenderOps) =>
                ENABLED (\E o \in ConcurrentOutcomes(calls[c].op) : RespondRender(c, o)))

C11_Witness ==
    /\ RenderSettled(calls["b"]) /\ calls["b"].op = "renderSimilarEvents"
    /\ calls["a"].op = "renderRecommendations" /\ calls["a"].pc = "awaiting"
    /\ calls["a"].writes = <<"loading">>
    /\ dom.kind = "markup" /\ dom.of = "similar events"
    /\ dom = TerminalContent(calls["b"])

\* C12: once an initialize call has completed, isInitialized is true exactly
\* when that call's status request succeeded with status "ready"; a failed
\* status request does not leave it true.
C12_ReflectsLastStatusCheck ==
    \A c \in DOMAIN calls :
        (calls[c].op = "initialize" /\ calls[c].pc = "returned") =>
            (isInitialized <=>
                (calls[c].resp.kind = "ok" /\ StatusReady(calls[c].resp.body)))

\* C13: a render call with a resolved container has written the loading
\* placeholder, and nothing else, by the time its retrieval request is in
\* flight; when the retrieval completes the call settles with exactly one
\* more write, the empty placeholder, the markup or the error placeholder;
\* and it writes nothing after that terminal write (the un-awaited view
\* POSTs completing later change neither its writes nor the container).
C13_LoadingThenOneTerminalWrite ==
    /\ [](\A c \in DOMAIN calls :
            calls[c].op \in RenderOps =>
                /\ calls[c].pc = "awaiting" =>
                      /\ calls[c].writes = <<"loading">>
                      /\ calls[c].sent = <<calls[c].req>>
                      /\ dom = Placeholder("loading", LabelOf(calls[c].op))
                /\ RenderSettled(calls[c]) =>
                      /\ Len(calls[c].writes) = 2
                      /\ calls[c].writes[1] = "loading"
                      /\ calls[c].writes[2] \in {"empty", "markup", "error"}
                      /\ dom.kind = calls[c].writes[2])
    /\ [][\A c \in DOMAIN calls :
            /\ IsRenderResponseOf(c) => RenderSettled(calls'[c])
            /\ (RenderSettled(calls[c]) /\ RenderSettled(calls'[c])) =>
                  /\ calls'[c].writes = calls[c].writes
                  /\ dom' = dom]_vars

C13_Witness ==
    /\ RenderSettled(calls["a"])
    /\ calls["a"].writes = <<"loading", "markup">>
    /\ calls["a"].result.count = 2
    /\ Cardinality(calls["a"].pendingViews) = 1
    /\ dom.kind = "markup"

\* C14: after a populated render, with the default template or with a
\* custom one, and a user id set, every item of the retrieved list has had a
\* view POST issued for its event_id and has a click listener for that
\* event_id; the number of items tracked is the count the call returns.
C14_EveryItemTracked ==
    \A c \in DOMAIN calls :
        LET call == calls[c]
            list == call.resp.body.list
        IN  ( /\ RenderSettled(call) /\ "markup" \in {call.writes[w] : w \in DOMAIN call.writes}
              /\ Truthy(currentUserId) /\ WellFormed(list) ) =>
                /\ Len(ViewsOf(call)) = call.result.count
                /\ call.result.count = Len(list)
                /\ \A i \in DOMAIN list :
                      /\ IsViewOf(ViewsOf(call)[i], list[i], currentUserId)
                      /\ dom.listeners[i] = Str(list[i].event_id.s)

\* C15: a render call returns in the step that completes its retrieval, with
\* its view POSTs still unanswered; its result and the content it leaves in
\* the container are determined by the retrieval response and the template
\* alone (the same with and without a user id), and the answer to a view
\* POST, success, non-2xx or network failure, changes neither.
C15_ViewsAreFireAndForget ==
    /\ [][\A c \in DOMAIN calls :
            IsRenderResponseOf(c) =>
                /\ calls'[c].pc = "returned"
                /\ calls'[c].pendingViews =
                      {1 + i : i \in DOMAIN ViewsOf(calls'[c])}
                /\ calls'[c].result =
                      RenderResult(FetchResult(calls'[c].resp), ListKeyOf(calls[c].op),
                                   calls[c].args.templateFn)
                /\ dom' = TerminalContent(calls'[c])]_vars
    /\ [][\A c \in DOMAIN calls :
            (RenderSettled(calls[c]) /\ RenderSettled(calls'[c])) =>
                /\ calls'[c].result = calls[c].result
                /\ calls'[c].pc = "returned"
                /\ dom' = dom]_vars

C15_Witness ==
    /\ RenderSettled(calls["a"]) /\ calls["a"].op = "renderSimilarEvents"
    /\ calls["a"].result = RenderSuccess(2)
    /\ Len(ViewsOf(calls["a"])) = 2
    /\ calls["a"].pendingViews = {}
    /\ dom = TerminalContent(calls["a"])

\* C16 as stated: no call of a public operation issues more than one HTTP
\* request.
C16_AtMostOneRequest == \A c \in DOMAIN calls : Len(calls[c].sent) <= 1

\* the POST recording a view of the event of a tracked node by user uid
IsViewOfNode(req, node, uid) ==
    /\ req.method = "POST" /\ req.path = "/api/event-interactions"
    /\ BodyValue(req, "user_id") = uid
    /\ BodyValue(req, "event_id") = node.dataEventId
    /\ BodyValue(req, "interaction_type") = Str("view")

\* C16 amended: a call issues at most one request that it awaits and never
\* repeats it: none on a guard-clause path, one otherwise, whatever the
\* answer; a render call issues, besides its one retrieval GET, one
\* un-awaited view POST per element with data-event-id of the markup it
\* wrote when a user id is set, and no other request.
C16_OneAwaitedRequest ==
    \A c \in DOMAIN calls :
        LET call == calls[c]
        IN  /\ call.pc = "awaiting" => call.sent = <<call.req>>
            /\ (call.pc \in {"returned", "threw"} /\ call.resp.kind = "none") =>
                  call.sent = <<>>
            /\ (call.pc \in {"returned", "threw"} /\ call.resp.kind # "none") =>
                  /\ call.sent[1] = call.req
                  /\ call.op \notin RenderOps => call.sent = <<call.req>>
                  /\ call.op \in RenderOps =>
                        LET tracked == IF dom.kind = "markup" /\ Truthy(currentUserId)
                                       THEN Tracked(dom.nodes) ELSE <<>>
                        IN  /\ call.req.method = "GET"
                            /\ Len(ViewsOf(call)) = Len(tracked)
                            /\ \A i \in DOMAIN tracked :
                                  IsViewOfNode(ViewsOf(call)[i], tracked[i], currentUserId)

C16_Witness ==
    /\ calls["a"].op = "renderRecommendations" /\ RenderSettled(calls["a"])
    /\ calls["a"].resp.kind = "ok" /\ Len(calls["a"].sent) = 3
    /\ calls["b"].op = "recordInteraction" /\ calls["b"].pc = "awaiting"
    /\ Len(calls["b"].sent) = 1

\* C17: the count parameter of the request of getRecommendations,
\* getTrendingEvents and getSimilarEvents is the count the caller provided,
\* 0 included, and the default (10, or 5 for similar events) only when the
\* caller provided none.
C17_CountPassedThrough ==
    \A c \in DOMAIN calls :
        LET call == calls[c]
        IN  /\ call.op \in {"getRecommendations", "getTrendingEvents"} =>
                  QueryValue(call.req, "count") =
                      IF call.args.options.count = Undefined THEN "10"
                      ELSE JsString(call.args.options.count)
            /\ call.op = "getSimilarEvents" =>
                  QueryValue(call.req, "count") =
                      IF call.args.count = Undefined THEN "5"
                      ELSE JsString(call.args.count)

\* the step is one of an initialize call: the call or its continuation
IsInitializeStep ==
    \E c \in DOMAIN calls : calls'[c].op = "initialize" /\ calls'[c] # calls[c]

\* C18: apiBaseUrl never changes, and every step that is not a step of an
\* initialize call (the call or the continuation of any other method, a
\* click, the answer to a view POST), in any interleaving, leaves
\* currentUserId and isInitialized unchanged.
C18_OnlyInitializeMutatesSession ==
    [][ /\ apiBaseUrl' = apiBaseUrl
        /\ ~IsInitializeStep =>
              /\ currentUserId' = currentUserId
              /\ isInitialized' = isInitialized ]_vars

C18_Witness ==
    /\ currentUserId = Str("u1") /\ isInitialized /\ apiBaseUrl = "/api"
    /\ calls["b"].op = "getRecommendations" /\ calls["b"].pc = "returned"
    /\ calls["b"].resp.kind = "http"
    /\ calls["a"].op = "renderRecommendations" /\ calls["a"].pc = "awaiting"

\* the methods that read this.currentUserId when called
UserScopedOps == {"recordInteraction", "click", "getRecommendations", "renderRecommendations"}

\* what a call of a user-scoped method made with user id uid issues
UsesUserId(call, uid) ==
    /\ call.uid = uid
    /\ call.op \in {"recordInteraction", "click"} =>
          IF NoUserId(uid) THEN call.pc = "returned" /\ call.sent = <<>>
          ELSE call.req.method = "POST" /\ BodyValue(call.req, "user_id") = uid
    /\ call.op \in {"getRecommendations", "renderRecommendations"} =>
          IF NoUserId(uid) THEN call.req.path = "/api/trending-events"
          ELSE /\ call.req.path = "/api/recommendations"
               /\ QueryValue(call.req, "user_id") = JsString(uid)

\* C19: a call initialize(userId) sets currentUserId to userId, or to null
\* when userId is omitted, in the step that issues the status request; the
\* continuation keeps that value whatever the answer, and leaves
\* isInitialized as it was when the status request failed; a user-scoped
\* method called while the initialize call is in flight uses the new id.
C19_UserIdSetBeforeStatusRequest ==
    [][\A c \in DOMAIN calls :
        /\ (IsCallBy(c) /\ calls'[c].op = "initialize") =>
              /\ currentUserId' = DefaultArg(calls'[c].args.userId, Null)
              /\ calls'[c].pc = "awaiting"
              /\ calls'[c].sent = <<StatusRequest(apiBaseUrl)>>
              /\ isInitialized' = isInitialized
        /\ (calls[c].op = "initialize" /\ calls[c].pc = "awaiting"
                /\ calls'[c].pc # "awaiting") =>
              /\ currentUserId' = currentUserId
              /\ currentUserId = DefaultArg(calls[c].args.userId, Null)
              /\ calls'[c].resp.kind # "ok" =>
                    /\ isInitialized' = isInitialized
                    /\ calls'[c].result = Failure(ErrorMessage(calls'[c].resp))
        /\ (calls[c].op = "initialize" /\ calls[c].pc = "awaiting") =>
              \A d \in DOMAIN calls \ {c} :
                  (IsCallBy(d) /\ calls'[d].op \in UserScopedOps) =>
                      UsesUserId(calls'[d], DefaultArg(calls[c].args.userId, Null))]_vars

C19_Witness ==
    /\ calls["a"].op = "initialize" /\ calls["a"].pc = "awaiting"
    /\ calls["a"].args.userId = Undefined
    /\ currentUserId = Null /\ isInitialized
    /\ renderedFor = Str("u1")
    /\ calls["b"].op = "click" /\ calls["b"].pc = "returned"
    /\ calls["b"].result = Failure("No user ID set")

\* C20: a click on a rendered card is recorded for the currentUserId of the
\* moment of the click, whoever the cards were rendered for: with a user id
\* set the handler issues one POST /event-interactions with that user_id,
\* the card's event id and interaction_type "click"; with none set it
\* issues no request.
C20_ClickUsesCurrentUser ==
    [][\A c \in DOMAIN calls :
        (IsCallBy(c) /\ calls'[c].op = "click") =>
            IF NoUserId(currentUserId)
            THEN /\ calls'[c].pc = "returned"
                 /\ calls'[c].sent = <<>>
                 /\ calls'[c].result = Failure("No user ID set")
            ELSE /\ calls'[c].pc = "awaiting"
                 /\ calls'[c].sent = <<calls'[c].req>>
                 /\ calls'[c].req.method = "POST"
                 /\ calls'[c].req.path = "/api/event-interactions"
                 /\ BodyValue(calls'[c].req, "user_id") = currentUserId
                 /\ BodyValue(calls'[c].req, "event_id") \in
                       {dom.listeners[i] : i \in DOMAIN dom.listeners} \ {Undefined}
                 /\ BodyValue(calls'[c].req, "interaction_type") = Str("click")]_vars

C20_Witness ==
    /\ renderedFor = Str("u1") /\ currentUserId = Str("u2")
    /\ dom.kind = "markup"
    /\ calls["a"].op = "click" /\ calls["a"].pc = "awaiting"
    /\ BodyValue(calls["a"].req, "user_id") = Str("u2")
    /\ BodyValue(calls["a"].req, "event_id") = Str("2")

\* a user id that is set but falsy: the number 0 or the empty string
SetButFalsy(uid) == uid \in FalsyUserIdArgs

\* C21: while currentUserId is 0 or the empty string, a recordInteraction
\* call issues no request and returns {success: false, error: "No user ID
\* set"}, and a getRecommendations call issues the GET /trending-events of
\* getTrendingEvents for the same options; and every request to
\* /recommendations or /event-interactions carries a truthy user id.
C21_FalsyUserIdIsNoUserId ==
    /\ [][\A c \in DOMAIN calls :
            (IsCallBy(c) /\ SetButFalsy(currentUserId)) =>
                /\ calls'[c].op = "recordInteraction" =>
                      /\ calls'[c].pc = "returned"
                      /\ calls'[c].sent = <<>>
                      /\ calls'[c].result = Failure("No user ID set")
                /\ calls'[c].op = "getRecommendations" =>
                      /\ calls'[c].pc = "awaiting"
                      /\ calls'[c].req.path = "/api/trending-events"
                      /\ calls'[c].req =
                            TrendingRequest(apiBaseUrl, calls'[c].args.options)
                      /\ calls'[c].sent = <<calls'[c].req>>]_vars
    /\ [](\A c \in DOMAIN calls : \A i \in DOMAIN calls[c].sent :
            LET req == calls[c].sent[i]
            IN  /\ req.path = "/api/recommendations" =>
                      /\ Truthy(calls[c].uid)
                      /\ QueryValue(req, "user_id") = JsString(calls[c].uid)
                /\ req.path = "/api/event-interactions" =>
                      Truthy(BodyValue(req, "user_id")))

C21_Witness ==
    /\ currentUserId = Num("0")
    /\ calls["a"].op = "getRecommendations" /\ calls["a"].pc = "returned"
    /\ calls["a"].uid = Num("0")
    /\ calls["a"].req.path = "/api/trending-events"
    /\ calls["a"].args.options.minPrice = Num("10")
    /\ calls["a"].resp.kind = "ok"

====
